---- MODULE Spec2Model ----
(***************************************************************************)
(* Resumable batch transfer of redirects (vtex toolbelt).                  *)
(*                                                                         *)
(* One command invocation (a process) runs handleImport or handleDelete    *)
(* over one input file.  The file is split in batches that are submitted   *)
(* one after the other; `counter` counts the batches done; the metainfo    *)
(* file keeps, per kind and per file hash, the counter to resume from.     *)
(*                                                                         *)
(* The helpers of lib/redirects/utils (saveMetainfo, deleteMetainfo,       *)
(* showGraphQLErrors, MAX_RETRIES) are not part of the sources at hand;    *)
(* they are modelled from the specification (sections 4.3, 4.6, 7).        *)
(* Reading and validating the input are taken to succeed.                  *)
(***************************************************************************)
EXTENDS Integers, Sequences, FiniteSets, TLC

\* ---- bounds of the model ----
MaxBatches == 3
MaxInvocations == 3
MaxNameLen == 2
MaxDataLen == 1
MaxRecords == 5
MaxBatchSize == 3
MaxCalls == 3
MaxPending == 3

\* ---- program constants ----
MAX_RETRIES == 2
IMPORTS == "imports"
DELETES == "deletes"

Kinds == {IMPORTS, DELETES}
\* "h1" is the hash of the input file of the run, "h2" the hash of some other
\* input that has an entry of its own in the metainfo file.
FileHashes == {"h1", "h2"}
fileHash == "h1"
Absent == -1
None == -1
Errors == {"RemoteTransientError", "RemoteRejectionError"}
\* the `from` keys of the records of the input file: pluck('from', routes)
routeKeys == {"b", "c", "d"}
\* RedirectsImport.run 107: `let indexedRoutes` is declared and never
\* assigned, so `indexedRoutes || []` is the empty list
indexedRoutes == {}
\* ramda difference(a, b): the elements of a that are not in b
difference(a, b) == a \ b

VARIABLES
  kind,             \* which command runs: IMPORTS or DELETES
  nBatches,         \* length(routesList) / length(separatedPaths)
  disk,             \* content of METAINFO_FILE: [kind -> [hash -> counter or Absent]]
  metainfo,         \* the document as read by the current attempt
  counter,          \* local variable `counter` of handleImport / handleDelete
  pc,               \* position of the process
  listener,         \* TRUE while the readline SIGINT listener is open
  retryCount,       \* module-level `retryCount`
  err,              \* the error caught by the current attempt, or "none"
  inflightApplied,  \* the remote effect of the in-flight batch has occurred
  remote,           \* remote side: batches applied, and last batch applied
  \* ---- history variables (observation only) ----
  confirmed,        \* batches whose submission returned successfully, ever
  attemptSubs,      \* batches submitted by the current attempt, in order
  attemptEntry,     \* persisted counter found by the current attempt
  attemptOK,        \* submissions of the current attempt that returned successfully
  attempts,         \* attempts (calls of handleX) of this invocation
  waits,            \* retry waits of this invocation
  failedAt,         \* batch whose submission failed in the current attempt, or None
  interruptedAt,    \* number of confirmed batches when SIGINT was handled, or None
  uncounted,        \* batch applied remotely but not counted when SIGINT was handled
  redo,             \* `uncounted` of the interrupted invocation right before this one
  invocations,      \* process invocations so far
  prevEnd,          \* how the previous invocation ended ("none" for the first)
  confirmedAtStart, \* `confirmed` when this invocation started
  crashSeen,        \* some invocation on this input has crashed
  \* ---- listeners and reset mode ----
  openListeners,    \* readline interfaces created and not closed in this process
  reset,            \* flag --reset of redirects import
  previousKeys,     \* `from` keys the remote side knew before the run
  importedRoutes,   \* local `importedRoutes` of RedirectsImport.run ({} = undefined)
  cleanupRuns,      \* key sets for which redirectsDelete was called by the reset block
  \* ---- more history variables ----
  resetBlockReached, \* the invocation reached the reset block (import.ts 126)
  dupApply,         \* some batch was applied remotely more than once
  sawRejection,     \* a submission of this invocation failed with a rejection
  failedApplied,    \* a submission failed after its remote effect had occurred
  \* ---- inputs and results of the pure functions ----
  fpIn,             \* << account, workspace, data >>, strings as sequences
  fpOut,            \* the string handed to the digest, or << "none" >>
  chunkRecords,     \* ordered record list
  chunkB,           \* maximum batch size
  chunkOut,         \* the planned batches, or NoPlan
  \* ---- telemetry reporter (TelemetryReporter, FileLock) ----
  tOp,              \* the reporter method being executed, or "none"
  tpc,              \* position inside that method, "idle" between calls
  dataPendingLock,  \* TRUE while the lock file reporter.lock exists
  lockAcquired,     \* the current / last call acquired dataPendingLock
  telemetryObjFile, \* the file given to reportTelemetryFile
  pendingDataFiles, \* number of data files in PENDING_DATA_DIR
  tTodo,            \* files of sendPendingData still to be processed
  errors,           \* length of `errors` in sendPendingData
  tCalls,           \* calls of the reporter so far
  tOutcome          \* how the last call ended

vars == << kind, nBatches, disk, metainfo, counter, pc, listener, retryCount,
           err, inflightApplied, remote, confirmed, attemptSubs, attemptEntry,
           attemptOK, attempts, waits, failedAt, interruptedAt, uncounted,
           redo, invocations, prevEnd, confirmedAtStart, crashSeen,
           openListeners, reset, previousKeys, importedRoutes, cleanupRuns,
           resetBlockReached, dupApply, sawRejection, failedApplied,
           fpIn, fpOut, chunkRecords, chunkB, chunkOut,
           tOp, tpc, dataPendingLock, lockAcquired, telemetryObjFile,
           pendingDataFiles, tTodo, errors, tCalls, tOutcome >>

telVars == << tOp, tpc, dataPendingLock, lockAcquired, telemetryObjFile,
              pendingDataFiles, tTodo, errors, tCalls, tOutcome >>

pureVars == << fpIn, fpOut, chunkRecords, chunkB, chunkOut >>

Running == {"begin", "loop", "inflight", "caught", "sleep", "cleanup"}
Ended == {"done", "interrupted", "exited", "aborted", "crashed"}

EmptyDoc == [k \in Kinds |-> [h \in FileHashes |-> Absent]]

\* metainfo[type][hash] ? metainfo[type][hash].counter : 0
ReadCounter(doc, type, hash) ==
  IF doc[type][hash] = Absent THEN 0 ELSE doc[type][hash]

\* CheckpointStore.save: sets the record of (type, hash) and writes the document
saveMetainfo(doc, type, hash, c) == [doc EXCEPT ![type][hash] = c]

\* CheckpointStore.clear: removes the record of (type, hash) and writes the document
deleteMetainfo(doc, type, hash) == [doc EXCEPT ![type][hash] = Absent]

\* truthy exactly for a structured rejection (an error carrying graphQLErrors)
showGraphQLErrors(e) == e = "RemoteRejectionError"

\* rewriter.importRedirects / deleteRedirects applied on the remote side
\* (idempotent per batch; a later batch overrides an earlier one)
ApplyRemote(r, i) == [applied |-> r.applied \cup {i}, last |-> i]

PersistedCount == ReadCounter(disk, kind, fileHash)

\* no plan computed yet (records are 1 and 2)
NoPlan == << << 0 >> >>

\* the pure functions are not under evaluation
PureIdle ==
  /\ fpIn = << << >>, << >>, << >> >>
  /\ fpOut = << "none" >>
  /\ chunkRecords = << >>
  /\ chunkB = 1
  /\ chunkOut = NoPlan

MainInit ==
  /\ kind \in Kinds
  /\ nBatches \in 1..MaxBatches
  /\ \E other \in {Absent, 1} :
       disk = [EmptyDoc EXCEPT ![IMPORTS]["h2"] = other]
  /\ metainfo = EmptyDoc
  /\ counter = 0
  /\ pc = "begin"
  /\ listener = FALSE
  /\ retryCount = 0
  /\ err = "none"
  /\ inflightApplied = FALSE
  /\ remote = [applied |-> {}, last |-> None]
  /\ confirmed = {}
  /\ attemptSubs = << >>
  /\ attemptEntry = 0
  /\ attemptOK = 0
  /\ attempts = 0
  /\ waits = 0
  /\ failedAt = None
  /\ interruptedAt = None
  /\ uncounted = None
  /\ redo = None
  /\ invocations = 1
  /\ prevEnd = "none"
  /\ confirmedAtStart = {}
  /\ crashSeen = FALSE
  /\ openListeners = 0
  /\ reset \in (IF kind = IMPORTS THEN BOOLEAN ELSE {FALSE})
  /\ previousKeys \in (IF reset THEN {{"a", "b", "c"}, {"b", "c"}, {}} ELSE {{}})
  /\ importedRoutes = {}
  /\ cleanupRuns = << >>
  /\ resetBlockReached = FALSE
  /\ dupApply = FALSE
  /\ sawRejection = FALSE
  /\ failedApplied = FALSE

\* the telemetry reporter has not been called
TelIdle ==
  /\ tOp = "none"
  /\ tpc = "idle"
  /\ dataPendingLock = FALSE
  /\ lockAcquired = FALSE
  /\ telemetryObjFile = "none"
  /\ pendingDataFiles = 0
  /\ tTodo = 0
  /\ errors = 0
  /\ tCalls = 0
  /\ tOutcome = "none"

Init == MainInit /\ PureIdle /\ TelIdle

\* EnterHandle resuming one batch too far
EnterHandle_Skip ==
  /\ pc = "begin"
  /\ metainfo' = disk
  /\ counter' = ReadCounter(disk, kind, fileHash) + 1
  /\ listener' = TRUE
  /\ openListeners' = openListeners + 1
  /\ pc' = "loop"
  /\ err' = "none"
  /\ attemptSubs' = << >>
  /\ attemptEntry' = PersistedCount
  /\ attemptOK' = 0
  /\ attempts' = attempts + 1
  /\ failedAt' = None
  /\ UNCHANGED << kind, nBatches, disk, retryCount, inflightApplied, remote,
                  confirmed, waits, interruptedAt, uncounted, redo, invocations, prevEnd,
                  confirmedAtStart, crashSeen >>
  /\ UNCHANGED << reset, previousKeys, importedRoutes, cleanupRuns, resetBlockReached, dupApply, sawRejection, failedApplied >>
  /\ UNCHANGED pureVars
  /\ UNCHANGED telVars

\* EnterHandle ignoring the persisted counter
EnterHandle_FromScratch ==
  /\ pc = "begin"
  /\ metainfo' = disk
  /\ counter' = 0
  /\ listener' = TRUE
  /\ openListeners' = openListeners + 1
  /\ pc' = "loop"
  /\ err' = "none"
  /\ attemptSubs' = << >>
  /\ attemptEntry' = PersistedCount
  /\ attemptOK' = 0
  /\ attempts' = attempts + 1
  /\ failedAt' = None
  /\ UNCHANGED << kind, nBatches, disk, retryCount, inflightApplied, remote,
                  confirmed, waits, interruptedAt, uncounted, redo, invocations, prevEnd,
                  confirmedAtStart, crashSeen >>
  /\ UNCHANGED << reset, previousKeys, importedRoutes, cleanupRuns, resetBlockReached, dupApply, sawRejection, failedApplied >>
  /\ UNCHANGED pureVars
  /\ UNCHANGED telVars

\* EnterHandle keeping only the counter and starting from an empty document
EnterHandle_EmptyDoc ==
  /\ pc = "begin"
  /\ metainfo' = EmptyDoc
  /\ counter' = ReadCounter(disk, kind, fileHash)
  /\ listener' = TRUE
  /\ openListeners' = openListeners + 1
  /\ pc' = "loop"
  /\ err' = "none"
  /\ attemptSubs' = << >>
  /\ attemptEntry' = PersistedCount
  /\ attemptOK' = 0
  /\ attempts' = attempts + 1
  /\ failedAt' = None
  /\ UNCHANGED << kind, nBatches, disk, retryCount, inflightApplied, remote,
                  confirmed, waits, interruptedAt, uncounted, redo, invocations, prevEnd,
                  confirmedAtStart, crashSeen >>
  /\ UNCHANGED << reset, previousKeys, importedRoutes, cleanupRuns, resetBlockReached, dupApply, sawRejection, failedApplied >>
  /\ UNCHANGED pureVars
  /\ UNCHANGED telVars

\* handleImport 46-67, handleDelete 41-64: read the metainfo file, take the
\* counter of this file hash (0 when there is none), split the input, open
\* the SIGINT listener and enter the loop over routesList.splice(counter).
EnterHandle ==
  /\ pc = "begin"
  /\ metainfo' = disk
  /\ counter' = ReadCounter(disk, kind, fileHash)
  /\ listener' = TRUE
  /\ openListeners' = openListeners + 1
  /\ pc' = "loop"
  /\ err' = "none"
  /\ attemptSubs' = << >>
  /\ attemptEntry' = PersistedCount
  /\ attemptOK' = 0
  /\ attempts' = attempts + 1
  /\ failedAt' = None
  /\ UNCHANGED << kind, nBatches, disk, retryCount, inflightApplied, remote,
                  confirmed, waits, interruptedAt, uncounted, redo, invocations, prevEnd,
                  confirmedAtStart, crashSeen >>
  /\ UNCHANGED << reset, previousKeys, importedRoutes, cleanupRuns, resetBlockReached, dupApply, sawRejection, failedApplied >>
  /\ UNCHANGED pureVars
  /\ UNCHANGED telVars

\* Submit sending the next batch while the previous one is still in flight
Submit_Concurrent ==
  /\ pc \in {"loop", "inflight"}
  /\ attemptEntry + Len(attemptSubs) < nBatches
  /\ pc' = "inflight"
  /\ inflightApplied' = FALSE
  /\ attemptSubs' = Append(attemptSubs, attemptEntry + Len(attemptSubs))
  /\ UNCHANGED << kind, nBatches, disk, metainfo, counter, listener,
                  retryCount, err, remote, confirmed, attemptEntry, attemptOK,
                  attempts, waits, failedAt, interruptedAt, uncounted, redo, invocations,
                  prevEnd, confirmedAtStart, crashSeen >>
  /\ UNCHANGED << openListeners, reset, previousKeys, importedRoutes, cleanupRuns, resetBlockReached, dupApply, sawRejection, failedApplied >>
  /\ UNCHANGED pureVars
  /\ UNCHANGED telVars

\* import.ts 69-72, delete 66-68: the next batch of the loop is sent
Submit ==
  /\ pc = "loop"
  /\ counter < nBatches
  /\ pc' = "inflight"
  /\ inflightApplied' = FALSE
  /\ attemptSubs' = Append(attemptSubs, counter)
  /\ UNCHANGED << kind, nBatches, disk, metainfo, counter, listener,
                  retryCount, err, remote, confirmed, attemptEntry, attemptOK,
                  attempts, waits, failedAt, interruptedAt, uncounted, redo, invocations,
                  prevEnd, confirmedAtStart, crashSeen >>
  /\ UNCHANGED << openListeners, reset, previousKeys, importedRoutes, cleanupRuns, resetBlockReached, dupApply, sawRejection, failedApplied >>
  /\ UNCHANGED pureVars
  /\ UNCHANGED telVars

\* the remote service applies the batch in flight
RemoteEffect ==
  /\ pc = "inflight"
  /\ ~inflightApplied
  /\ inflightApplied' = TRUE
  /\ remote' = ApplyRemote(remote, counter)
  /\ dupApply' = (dupApply \/ counter \in remote.applied)
  /\ UNCHANGED << kind, nBatches, disk, metainfo, counter, pc, listener,
                  retryCount, err, confirmed, attemptSubs, attemptEntry,
                  attemptOK, attempts, waits, failedAt, interruptedAt, uncounted, redo,
                  invocations, prevEnd, confirmedAtStart, crashSeen >>
  /\ UNCHANGED << openListeners, reset, previousKeys, importedRoutes, cleanupRuns, resetBlockReached, sawRejection, failedApplied >>
  /\ UNCHANGED pureVars
  /\ UNCHANGED telVars

\* import.ts 72,79-80, delete 68,74-75: the awaited submission resolves:
\* counter++, bar.tick(), and the loop goes on
SubmitSuccess ==
  /\ pc = "inflight"
  /\ inflightApplied
  /\ counter' = counter + 1
  /\ pc' = "loop"
  /\ inflightApplied' = FALSE
  /\ confirmed' = confirmed \cup {counter}
  /\ attemptOK' = attemptOK + 1
  /\ UNCHANGED << kind, nBatches, disk, metainfo, listener, retryCount, err,
                  remote, attemptSubs, attemptEntry, attempts, waits, failedAt,
                  interruptedAt, uncounted, redo, invocations, prevEnd, confirmedAtStart,
                  crashSeen >>
  /\ UNCHANGED << openListeners, reset, previousKeys, importedRoutes, cleanupRuns, resetBlockReached, dupApply, sawRejection, failedApplied >>
  /\ UNCHANGED pureVars
  /\ UNCHANGED telVars

\* SubmitFail persisting a counter that includes the failed batch
SubmitFail_CountsInflight ==
  /\ pc = "inflight"
  /\ \E e \in Errors : err' = e
  /\ sawRejection' = (sawRejection \/ err' = "RemoteRejectionError")
  /\ failedApplied' = (failedApplied \/ inflightApplied)
  /\ metainfo' = saveMetainfo(metainfo, kind, fileHash, counter + 1)
  /\ disk' = saveMetainfo(metainfo, kind, fileHash, counter + 1)
  /\ listener' = FALSE
  /\ openListeners' = openListeners - 1
  /\ pc' = "caught"
  /\ inflightApplied' = FALSE
  /\ failedAt' = counter
  /\ UNCHANGED << kind, nBatches, counter, retryCount, remote, confirmed,
                  attemptSubs, attemptEntry, attemptOK, attempts, waits,
                  interruptedAt, uncounted, redo, invocations, prevEnd, confirmedAtStart,
                  crashSeen >>
  /\ UNCHANGED << reset, previousKeys, importedRoutes, cleanupRuns, resetBlockReached, dupApply >>
  /\ UNCHANGED pureVars
  /\ UNCHANGED telVars

\* SubmitFail persisting the counter but not rethrowing: the loop goes on
SubmitFail_Swallow ==
  /\ pc = "inflight"
  /\ \E e \in Errors : err' = e
  /\ sawRejection' = (sawRejection \/ err' = "RemoteRejectionError")
  /\ failedApplied' = (failedApplied \/ inflightApplied)
  /\ metainfo' = saveMetainfo(metainfo, kind, fileHash, counter)
  /\ disk' = saveMetainfo(metainfo, kind, fileHash, counter)
  /\ listener' = listener
  /\ openListeners' = openListeners
  /\ pc' = "loop"
  /\ inflightApplied' = FALSE
  /\ failedAt' = counter
  /\ counter' = counter + 1
  /\ UNCHANGED << kind, nBatches, retryCount, remote, confirmed,
                  attemptSubs, attemptEntry, attemptOK, attempts, waits,
                  interruptedAt, uncounted, redo, invocations, prevEnd, confirmedAtStart,
                  crashSeen >>
  /\ UNCHANGED << reset, previousKeys, importedRoutes, cleanupRuns, resetBlockReached, dupApply >>
  /\ UNCHANGED pureVars
  /\ UNCHANGED telVars

\* SubmitFail persisting the successes of this attempt, not the absolute counter
SubmitFail_Relative ==
  /\ pc = "inflight"
  /\ \E e \in Errors : err' = e
  /\ sawRejection' = (sawRejection \/ err' = "RemoteRejectionError")
  /\ failedApplied' = (failedApplied \/ inflightApplied)
  /\ metainfo' = saveMetainfo(metainfo, kind, fileHash, attemptOK)
  /\ disk' = saveMetainfo(metainfo, kind, fileHash, attemptOK)
  /\ listener' = FALSE
  /\ openListeners' = openListeners - 1
  /\ pc' = "caught"
  /\ inflightApplied' = FALSE
  /\ failedAt' = counter
  /\ UNCHANGED << kind, nBatches, counter, retryCount, remote, confirmed,
                  attemptSubs, attemptEntry, attemptOK, attempts, waits,
                  interruptedAt, uncounted, redo, invocations, prevEnd, confirmedAtStart,
                  crashSeen >>
  /\ UNCHANGED << reset, previousKeys, importedRoutes, cleanupRuns, resetBlockReached, dupApply >>
  /\ UNCHANGED pureVars
  /\ UNCHANGED telVars

\* SubmitFail rethrowing without listener.close()
SubmitFail_NoClose ==
  /\ pc = "inflight"
  /\ \E e \in Errors : err' = e
  /\ sawRejection' = (sawRejection \/ err' = "RemoteRejectionError")
  /\ failedApplied' = (failedApplied \/ inflightApplied)
  /\ metainfo' = saveMetainfo(metainfo, kind, fileHash, counter)
  /\ disk' = saveMetainfo(metainfo, kind, fileHash, counter)
  /\ listener' = listener
  /\ openListeners' = openListeners
  /\ pc' = "caught"
  /\ inflightApplied' = FALSE
  /\ failedAt' = counter
  /\ UNCHANGED << kind, nBatches, counter, retryCount, remote, confirmed,
                  attemptSubs, attemptEntry, attemptOK, attempts, waits,
                  interruptedAt, uncounted, redo, invocations, prevEnd, confirmedAtStart,
                  crashSeen >>
  /\ UNCHANGED << reset, previousKeys, importedRoutes, cleanupRuns, resetBlockReached, dupApply >>
  /\ UNCHANGED pureVars
  /\ UNCHANGED telVars

\* import.ts 73-78, delete 69-73: the awaited submission rejects:
\* saveMetainfo(metainfo, kind, fileHash, counter), listener.close(), throw e
SubmitFail ==
  /\ pc = "inflight"
  /\ \E e \in Errors : err' = e
  /\ sawRejection' = (sawRejection \/ err' = "RemoteRejectionError")
  /\ failedApplied' = (failedApplied \/ inflightApplied)
  /\ metainfo' = saveMetainfo(metainfo, kind, fileHash, counter)
  /\ disk' = saveMetainfo(metainfo, kind, fileHash, counter)
  /\ listener' = FALSE
  /\ openListeners' = openListeners - 1
  /\ pc' = "caught"
  /\ inflightApplied' = FALSE
  /\ failedAt' = counter
  /\ UNCHANGED << kind, nBatches, counter, retryCount, remote, confirmed,
                  attemptSubs, attemptEntry, attemptOK, attempts, waits,
                  interruptedAt, uncounted, redo, invocations, prevEnd, confirmedAtStart,
                  crashSeen >>
  /\ UNCHANGED << reset, previousKeys, importedRoutes, cleanupRuns, resetBlockReached, dupApply >>
  /\ UNCHANGED pureVars
  /\ UNCHANGED telVars

\* Finish saving the final counter instead of removing the entry
Finish_KeepEntry ==
  /\ pc = "loop"
  /\ counter >= nBatches
  /\ listener' = FALSE
  /\ openListeners' = openListeners - 1
  /\ metainfo' = saveMetainfo(metainfo, kind, fileHash, counter)
  /\ disk' = saveMetainfo(metainfo, kind, fileHash, counter)
  /\ IF kind = IMPORTS
       THEN /\ importedRoutes' = routeKeys
            /\ resetBlockReached' = TRUE
            /\ IF reset /\ difference(indexedRoutes, routeKeys) # {}
                 THEN /\ cleanupRuns' = Append(cleanupRuns,
                                           difference(indexedRoutes, routeKeys))
                      /\ pc' = "cleanup"
                 ELSE /\ cleanupRuns' = cleanupRuns
                      /\ pc' = "done"
       ELSE /\ pc' = "done"
            /\ UNCHANGED << importedRoutes, resetBlockReached, cleanupRuns >>
  /\ UNCHANGED << kind, nBatches, counter, retryCount, err, inflightApplied,
                  remote, confirmed, attemptSubs, attemptEntry, attemptOK,
                  attempts, waits, failedAt, interruptedAt, uncounted, redo, invocations,
                  prevEnd, confirmedAtStart, crashSeen >>
  /\ UNCHANGED << reset, previousKeys, dupApply, sawRejection, failedApplied >>
  /\ UNCHANGED pureVars
  /\ UNCHANGED telVars

\* import.ts 83-86, delete 77-79: the loop is over: listener.close(),
\* deleteMetainfo(metainfo, kind, fileHash), return.  In an import, run()
\* goes on with the reset block (import.ts 126-142) without yielding:
\* routesToDelete = difference(indexedRoutes || [], importedRoutes || []);
\* when --reset is given and it is not empty, the list is written to a file
\* and redirectsDelete is called on it.
Finish ==
  /\ pc = "loop"
  /\ counter >= nBatches
  /\ listener' = FALSE
  /\ openListeners' = openListeners - 1
  /\ metainfo' = deleteMetainfo(metainfo, kind, fileHash)
  /\ disk' = deleteMetainfo(metainfo, kind, fileHash)
  /\ IF kind = IMPORTS
       THEN /\ importedRoutes' = routeKeys
            /\ resetBlockReached' = TRUE
            /\ IF reset /\ difference(indexedRoutes, routeKeys) # {}
                 THEN /\ cleanupRuns' = Append(cleanupRuns,
                                           difference(indexedRoutes, routeKeys))
                      /\ pc' = "cleanup"
                 ELSE /\ cleanupRuns' = cleanupRuns
                      /\ pc' = "done"
       ELSE /\ pc' = "done"
            /\ UNCHANGED << importedRoutes, resetBlockReached, cleanupRuns >>
  /\ UNCHANGED << kind, nBatches, counter, retryCount, err, inflightApplied,
                  remote, confirmed, attemptSubs, attemptEntry, attemptOK,
                  attempts, waits, failedAt, interruptedAt, uncounted, redo, invocations,
                  prevEnd, confirmedAtStart, crashSeen >>
  /\ UNCHANGED << reset, previousKeys, dupApply, sawRejection, failedApplied >>
  /\ UNCHANGED pureVars
  /\ UNCHANGED telVars

\* Interrupt persisting the value the counter had when the listener was created
Interrupt_StaleCounter ==
  /\ listener
  /\ \/ pc = "inflight"
     \/ pc = "loop" /\ kind = DELETES
  /\ metainfo' = saveMetainfo(metainfo, kind, fileHash, attemptEntry)
  /\ disk' = saveMetainfo(metainfo, kind, fileHash, attemptEntry)
  /\ pc' = "interrupted"
  /\ listener' = FALSE
  /\ openListeners' = 0
  /\ interruptedAt' = attemptEntry + attemptOK
  /\ uncounted' = IF pc = "inflight" /\ inflightApplied THEN counter ELSE None
  /\ inflightApplied' = FALSE
  /\ UNCHANGED << kind, nBatches, counter, retryCount, err, remote, confirmed,
                  attemptSubs, attemptEntry, attemptOK, attempts, waits,
                  failedAt, redo, invocations, prevEnd, confirmedAtStart,
                  crashSeen >>
  /\ UNCHANGED << reset, previousKeys, importedRoutes, cleanupRuns, resetBlockReached, dupApply, sawRejection, failedApplied >>
  /\ UNCHANGED pureVars
  /\ UNCHANGED telVars

\* Interrupt persisting a counter that includes the batch in flight
Interrupt_CountsInflight ==
  /\ listener
  /\ \/ pc = "inflight"
     \/ pc = "loop" /\ kind = DELETES
  /\ metainfo' = saveMetainfo(metainfo, kind, fileHash,
                    IF pc = "inflight" THEN counter + 1 ELSE counter)
  /\ disk' = saveMetainfo(metainfo, kind, fileHash,
                    IF pc = "inflight" THEN counter + 1 ELSE counter)
  /\ pc' = "interrupted"
  /\ listener' = FALSE
  /\ openListeners' = 0
  /\ interruptedAt' = attemptEntry + attemptOK
  /\ uncounted' = IF pc = "inflight" /\ inflightApplied THEN counter ELSE None
  /\ inflightApplied' = FALSE
  /\ UNCHANGED << kind, nBatches, counter, retryCount, err, remote, confirmed,
                  attemptSubs, attemptEntry, attemptOK, attempts, waits,
                  failedAt, redo, invocations, prevEnd, confirmedAtStart,
                  crashSeen >>
  /\ UNCHANGED << reset, previousKeys, importedRoutes, cleanupRuns, resetBlockReached, dupApply, sawRejection, failedApplied >>
  /\ UNCHANGED pureVars
  /\ UNCHANGED telVars

\* import.ts 63-67, delete 60-64: the SIGINT listener:
\* saveMetainfo(metainfo, kind, fileHash, counter), process.exit().
\* The event is handled while the process awaits: during a submission and,
\* in handleDelete, between two iterations of Promise.each; handleImport
\* goes from one submission to the next without yielding.
Interrupt ==
  /\ listener
  /\ \/ pc = "inflight"
     \/ pc = "loop" /\ kind = DELETES
  /\ metainfo' = saveMetainfo(metainfo, kind, fileHash, counter)
  /\ disk' = saveMetainfo(metainfo, kind, fileHash, counter)
  /\ pc' = "interrupted"
  /\ listener' = FALSE
  /\ openListeners' = 0
  /\ interruptedAt' = attemptEntry + attemptOK
  /\ uncounted' = IF pc = "inflight" /\ inflightApplied THEN counter ELSE None
  /\ inflightApplied' = FALSE
  /\ UNCHANGED << kind, nBatches, counter, retryCount, err, remote, confirmed,
                  attemptSubs, attemptEntry, attemptOK, attempts, waits,
                  failedAt, redo, invocations, prevEnd, confirmedAtStart,
                  crashSeen >>
  /\ UNCHANGED << reset, previousKeys, importedRoutes, cleanupRuns, resetBlockReached, dupApply, sawRejection, failedApplied >>
  /\ UNCHANGED pureVars
  /\ UNCHANGED telVars

\* HandleError of import without the check of maybeGraphQLErrors
HandleError_NoClassify ==
  /\ pc = "caught"
  /\ IF kind = IMPORTS
       THEN IF retryCount >= MAX_RETRIES
              THEN pc' = "exited" /\ waits' = waits
              ELSE pc' = "sleep" /\ waits' = waits + 1
       ELSE IF retryCount >= MAX_RETRIES
              THEN pc' = "aborted" /\ waits' = waits
              ELSE pc' = "sleep" /\ waits' = waits + 1
  /\ UNCHANGED << kind, nBatches, disk, metainfo, counter, listener,
                  retryCount, err, inflightApplied, remote, confirmed,
                  attemptSubs, attemptEntry, attemptOK, attempts, failedAt,
                  interruptedAt, uncounted, redo, invocations, prevEnd, confirmedAtStart,
                  crashSeen >>
  /\ UNCHANGED << openListeners, reset, previousKeys, importedRoutes, cleanupRuns, resetBlockReached, dupApply, sawRejection, failedApplied >>
  /\ UNCHANGED pureVars
  /\ UNCHANGED telVars

\* HandleError of import going on to the reset block instead of process.exit()
HandleError_FallsThrough ==
  /\ pc = "caught"
  /\ IF kind = IMPORTS
       THEN IF retryCount >= MAX_RETRIES \/ showGraphQLErrors(err)
              THEN pc' = "done" /\ waits' = waits
              ELSE pc' = "sleep" /\ waits' = waits + 1
       ELSE IF retryCount >= MAX_RETRIES
              THEN pc' = "aborted" /\ waits' = waits
              ELSE pc' = "sleep" /\ waits' = waits + 1
  /\ UNCHANGED << kind, nBatches, disk, metainfo, counter, listener,
                  retryCount, err, inflightApplied, remote, confirmed,
                  attemptSubs, attemptEntry, attemptOK, attempts, failedAt,
                  interruptedAt, uncounted, redo, invocations, prevEnd, confirmedAtStart,
                  crashSeen >>
  /\ UNCHANGED << openListeners, reset, previousKeys, importedRoutes, cleanupRuns, dupApply, sawRejection, failedApplied >>
  /\ resetBlockReached' = (resetBlockReached \/
       (kind = IMPORTS /\ (retryCount >= MAX_RETRIES \/ showGraphQLErrors(err))))
  /\ UNCHANGED pureVars
  /\ UNCHANGED telVars

\* RedirectsImport.run 111-122: retryCount >= MAX_RETRIES || maybeGraphQLErrors
\* ends the process with process.exit(); otherwise sleep.
\* redirectsDelete 86-96: retryCount >= MAX_RETRIES rethrows; otherwise sleep.
HandleError ==
  /\ pc = "caught"
  /\ IF kind = IMPORTS
       THEN IF retryCount >= MAX_RETRIES \/ showGraphQLErrors(err)
              THEN pc' = "exited" /\ waits' = waits
              ELSE pc' = "sleep" /\ waits' = waits + 1
       ELSE IF retryCount >= MAX_RETRIES
              THEN pc' = "aborted" /\ waits' = waits
              ELSE pc' = "sleep" /\ waits' = waits + 1
  /\ UNCHANGED << kind, nBatches, disk, metainfo, counter, listener,
                  retryCount, err, inflightApplied, remote, confirmed,
                  attemptSubs, attemptEntry, attemptOK, attempts, failedAt,
                  interruptedAt, uncounted, redo, invocations, prevEnd, confirmedAtStart,
                  crashSeen >>
  /\ UNCHANGED << openListeners, reset, previousKeys, importedRoutes, cleanupRuns, resetBlockReached, dupApply, sawRejection, failedApplied >>
  /\ UNCHANGED pureVars
  /\ UNCHANGED telVars

\* RedirectsImport.run 123-124, redirectsDelete 97-98: after the sleep,
\* retryCount++ and module.exports.default(csvPath).  In delete the default
\* export is the retrying function itself: handleDelete is entered again.
\* In import.ts the default export is the class RedirectsImport (line 91):
\* calling it without `new` throws a TypeError, which leaves run().
Retry ==
  /\ pc = "sleep"
  /\ retryCount' = retryCount + 1
  /\ pc' = IF kind = DELETES THEN "begin" ELSE "aborted"
  /\ UNCHANGED << kind, nBatches, disk, metainfo, counter, listener, err,
                  inflightApplied, remote, confirmed, attemptSubs,
                  attemptEntry, attemptOK, attempts, waits, failedAt,
                  interruptedAt, uncounted, redo, invocations, prevEnd, confirmedAtStart,
                  crashSeen >>
  /\ UNCHANGED << openListeners, reset, previousKeys, importedRoutes, cleanupRuns, resetBlockReached, dupApply, sawRejection, failedApplied >>
  /\ UNCHANGED pureVars
  /\ UNCHANGED telVars

\* the process stops without any handler running (kill, power loss, or
\* SIGINT while no listener is open)
Crash ==
  /\ pc \in Running
  /\ pc' = "crashed"
  /\ listener' = FALSE
  /\ openListeners' = 0
  /\ inflightApplied' = FALSE
  /\ crashSeen' = TRUE
  /\ UNCHANGED << kind, nBatches, disk, metainfo, counter, retryCount, err,
                  remote, confirmed, attemptSubs, attemptEntry, attemptOK,
                  attempts, waits, failedAt, interruptedAt, uncounted, redo, invocations,
                  prevEnd, confirmedAtStart >>
  /\ UNCHANGED << reset, previousKeys, importedRoutes, cleanupRuns, resetBlockReached, dupApply, sawRejection, failedApplied >>
  /\ UNCHANGED pureVars
  /\ UNCHANGED telVars

\* the operator runs the same command again on the same input: a new
\* process, hence fresh module state (retryCount = 0) and the same disk
StartInvocation ==
  /\ pc \in Ended \ {"done"}
  /\ invocations < MaxInvocations
  /\ invocations' = invocations + 1
  /\ prevEnd' = pc
  /\ confirmedAtStart' = confirmed
  /\ pc' = "begin"
  /\ retryCount' = 0
  /\ counter' = 0
  /\ metainfo' = EmptyDoc
  /\ err' = "none"
  /\ attemptSubs' = << >>
  /\ attemptEntry' = 0
  /\ attemptOK' = 0
  /\ attempts' = 0
  /\ waits' = 0
  /\ failedAt' = None
  /\ interruptedAt' = None
  /\ redo' = IF pc = "interrupted" THEN uncounted ELSE None
  /\ uncounted' = None
  /\ openListeners' = 0
  /\ importedRoutes' = {}
  /\ resetBlockReached' = FALSE
  /\ sawRejection' = FALSE
  /\ UNCHANGED << kind, nBatches, disk, listener, inflightApplied, remote,
                  confirmed, crashSeen >>
  /\ UNCHANGED << reset, previousKeys, cleanupRuns, dupApply, failedApplied >>
  /\ UNCHANGED pureVars
  /\ UNCHANGED telVars

Next ==
  \/ EnterHandle
  \/ Submit
  \/ RemoteEffect
  \/ SubmitSuccess
  \/ SubmitFail
  \/ Finish
  \/ Interrupt
  \/ HandleError
  \/ Retry
  \/ Crash
  \/ StartInvocation

Spec == Init /\ [][Next]_vars

\* ---------------------------------------------------------------------
\* The pure functions: fingerprint input and chunk planning
\* ---------------------------------------------------------------------

Alphabet == {"_", "a"}

StringsBetween(lo, hi) == UNION {[1..k -> Alphabet] : k \in lo..hi}

\* account and workspace names are not empty; the file content may be
FpTriples ==
  StringsBetween(1, MaxNameLen) \X StringsBetween(1, MaxNameLen)
    \X StringsBetween(0, MaxDataLen)

\* import.ts 49, delete 44: `${account}_${workspace}_${data}`
FingerprintInput(account, workspace, data) ==
  account \o << "_" >> \o workspace \o << "_" >> \o data

Min(a, b) == IF a < b THEN a ELSE b

\* splitJsonArray dropping a final batch that is not full
RECURSIVE splitJsonArray_DropTail(_, _)
splitJsonArray_DropTail(data, B) ==
  IF Len(data) < B
    THEN << >>
    ELSE << SubSeq(data, 1, B) >>
           \o splitJsonArray_DropTail(SubSeq(data, B + 1, Len(data)), B)

\* ChunkPlanner: consecutive slices of at most B records, in order
RECURSIVE splitJsonArray(_, _)
splitJsonArray(data, B) ==
  IF data = << >>
    THEN << >>
    ELSE << SubSeq(data, 1, Min(B, Len(data))) >>
           \o splitJsonArray(SubSeq(data, Min(B, Len(data)) + 1, Len(data)), B)

mainVars == << kind, nBatches, disk, metainfo, counter, pc, listener,
               retryCount, err, inflightApplied, remote, confirmed,
               attemptSubs, attemptEntry, attemptOK, attempts, waits,
               failedAt, interruptedAt, uncounted, redo, invocations,
               prevEnd, confirmedAtStart, crashSeen, openListeners, reset,
               previousKeys, importedRoutes, cleanupRuns, resetBlockReached,
               dupApply, sawRejection, failedApplied >>

\* the process before handleImport is entered, one fixed input
MainAtStart ==
  /\ MainInit
  /\ kind = IMPORTS
  /\ nBatches = 1
  /\ disk = EmptyDoc
  /\ ~reset

InitFp ==
  /\ MainAtStart
  /\ fpIn \in FpTriples
  /\ fpOut = << "none" >>
  /\ chunkRecords = << >>
  /\ chunkB = 1
  /\ chunkOut = NoPlan
  /\ TelIdle

\* handleImport 46-52: the string given to createHash('md5').update
ComputeFp ==
  /\ fpOut = << "none" >>
  /\ fpOut' = FingerprintInput(fpIn[1], fpIn[2], fpIn[3])
  /\ UNCHANGED << fpIn, chunkRecords, chunkB, chunkOut >>
  /\ UNCHANGED mainVars
  /\ UNCHANGED telVars

NextFp == ComputeFp

SpecFp == InitFp /\ [][NextFp]_vars

InitChunk ==
  /\ MainAtStart
  /\ fpIn = << << >>, << >>, << >> >>
  /\ fpOut = << "none" >>
  /\ chunkRecords \in UNION {[1..n -> {1, 2}] : n \in 0..MaxRecords}
  /\ chunkB \in 1..MaxBatchSize
  /\ chunkOut = NoPlan
  /\ TelIdle

\* handleImport 59, handleDelete 56: routesList = splitJsonArray(routes)
PlanChunks ==
  /\ chunkOut = NoPlan
  /\ chunkOut' = splitJsonArray(chunkRecords, chunkB)
  /\ UNCHANGED << fpIn, fpOut, chunkRecords, chunkB >>
  /\ UNCHANGED mainVars
  /\ UNCHANGED telVars

NextChunk == PlanChunks

SpecChunk == InitChunk /\ [][NextChunk]_vars

\* ---------------------------------------------------------------------
\* The telemetry reporter: TelemetryReporter and its FileLock
\* ---------------------------------------------------------------------

TelOps == {"reportTelemetryFile", "sendPendingData"}

\* the reporter between two calls, some data files pending
InitTel ==
  /\ MainAtStart
  /\ PureIdle
  /\ tOp = "none"
  /\ tpc = "idle"
  /\ dataPendingLock = FALSE
  /\ lockAcquired = FALSE
  /\ telemetryObjFile = "none"
  /\ pendingDataFiles \in 0..1
  /\ tTodo = 0
  /\ errors = 0
  /\ tCalls = 0
  /\ tOutcome = "none"

\* the call ends: its promise resolves (how = "returned") or rejects
EndCall(how) ==
  /\ tpc' = "idle"
  /\ tOutcome' = how

\* reportTelemetryFile 148-150: the call starts on a telemetry file
reportTelemetryFile ==
  /\ tpc = "idle"
  /\ tCalls < MaxCalls
  /\ pendingDataFiles + 2 <= MaxPending
  /\ tOp' = "reportTelemetryFile"
  /\ tpc' = "try"
  /\ lockAcquired' = FALSE
  /\ telemetryObjFile' = "present"
  /\ tCalls' = tCalls + 1
  /\ tOutcome' = "none"
  /\ UNCHANGED << dataPendingLock, pendingDataFiles, tTodo, errors >>
  /\ UNCHANGED mainVars
  /\ UNCHANGED pureVars

\* reportTelemetryFile 150-154: readJson, reportErrors, remove; a failure of
\* any of them enters the catch
ReportTry ==
  /\ tOp = "reportTelemetryFile"
  /\ tpc = "try"
  /\ \E ok \in BOOLEAN :
       IF ok
         THEN /\ telemetryObjFile' = "removed"
              /\ EndCall("returned")
         ELSE /\ tpc' = "lock"
              /\ UNCHANGED << telemetryObjFile, tOutcome >>
  /\ UNCHANGED << tOp, dataPendingLock, lockAcquired, pendingDataFiles, tTodo,
                  errors, tCalls >>
  /\ UNCHANGED mainVars
  /\ UNCHANGED pureVars

\* sendPendingData 162-164: the call starts by taking the lock
sendPendingData ==
  /\ tpc = "idle"
  /\ tCalls < MaxCalls
  /\ pendingDataFiles + 1 <= MaxPending
  /\ tOp' = "sendPendingData"
  /\ tpc' = "lock"
  /\ lockAcquired' = FALSE
  /\ tTodo' = 0
  /\ errors' = 0
  /\ tCalls' = tCalls + 1
  /\ tOutcome' = "none"
  /\ UNCHANGED << dataPendingLock, telemetryObjFile, pendingDataFiles >>
  /\ UNCHANGED mainVars
  /\ UNCHANGED pureVars

\* FileLock.lock 103-110 (options {}: no wait, no retries): ensureDir, then
\* lockfile.lock creates the lock file; the promise rejects when ensureDir
\* fails or the lock file exists already.  The await is not inside a try,
\* so a rejection ends the calling method.
FileLock_lock ==
  /\ tpc = "lock"
  /\ \E ok \in BOOLEAN :
       IF ok /\ ~dataPendingLock
         THEN /\ dataPendingLock' = TRUE
              /\ lockAcquired' = TRUE
              /\ tpc' = IF tOp = "reportTelemetryFile" THEN "move" ELSE "readdir"
              /\ UNCHANGED tOutcome
         ELSE /\ EndCall("rejected")
              /\ UNCHANGED << dataPendingLock, lockAcquired >>
  /\ UNCHANGED << tOp, telemetryObjFile, pendingDataFiles, tTodo, errors, tCalls >>
  /\ UNCHANGED mainVars
  /\ UNCHANGED pureVars

\* reportTelemetryFile 156: await move(telemetryObjFilePath, PENDING_DATA_DIR);
\* a rejection leaves the method at once (no try/finally around it)
move ==
  /\ tOp = "reportTelemetryFile"
  /\ tpc = "move"
  /\ \E ok \in BOOLEAN :
       IF ok
         THEN /\ telemetryObjFile' = "moved"
              /\ pendingDataFiles' = pendingDataFiles + 1
              /\ tpc' = "meta"
              /\ UNCHANGED tOutcome
         ELSE /\ EndCall("rejected")
              /\ UNCHANGED << telemetryObjFile, pendingDataFiles >>
  /\ UNCHANGED << tOp, dataPendingLock, lockAcquired, tTodo, errors, tCalls >>
  /\ UNCHANGED mainVars
  /\ UNCHANGED pureVars

\* pendingFilesPaths 206-212, called at sendPendingData 166: readdir of the
\* pending directory without the lock file; a rejection leaves the method
pendingFilesPaths ==
  /\ tOp = "sendPendingData"
  /\ tpc = "readdir"
  /\ \E ok \in BOOLEAN :
       IF ok
         THEN /\ tTodo' = pendingDataFiles
              /\ tpc' = "files"
              /\ UNCHANGED tOutcome
         ELSE /\ EndCall("rejected")
              /\ UNCHANGED tTodo
  /\ UNCHANGED << tOp, dataPendingLock, lockAcquired, telemetryObjFile,
                  pendingDataFiles, errors, tCalls >>
  /\ UNCHANGED mainVars
  /\ UNCHANGED pureVars

\* sendPendingData 169-177: one pending file is read, reported and removed;
\* a failure is caught and pushed to `errors`, the file stays
SendFile ==
  /\ tOp = "sendPendingData"
  /\ tpc = "files"
  /\ tTodo > 0
  /\ tTodo' = tTodo - 1
  /\ \E ok \in BOOLEAN :
       IF ok
         THEN /\ pendingDataFiles' = pendingDataFiles - 1
              /\ UNCHANGED errors
         ELSE /\ errors' = errors + 1
              /\ UNCHANGED pendingDataFiles
  /\ UNCHANGED << tOp, tpc, dataPendingLock, lockAcquired, telemetryObjFile,
                  tCalls, tOutcome >>
  /\ UNCHANGED mainVars
  /\ UNCHANGED pureVars

\* sendPendingData 168-178: Promise.all resolves when every file is settled
FilesDone ==
  /\ tOp = "sendPendingData"
  /\ tpc = "files"
  /\ tTodo = 0
  /\ tpc' = "meta"
  /\ UNCHANGED << tOp, dataPendingLock, lockAcquired, telemetryObjFile,
                  pendingDataFiles, tTodo, errors, tCalls, tOutcome >>
  /\ UNCHANGED mainVars
  /\ UNCHANGED pureVars

\* createTelemetryReporterMetaError 188-204, awaited at 157 and 180:
\* ensureFile and writeJson of a new file in the pending directory (also
\* when `errors` is empty); a rejection leaves the calling method
createTelemetryReporterMetaError ==
  /\ tpc = "meta"
  /\ \E ok \in BOOLEAN :
       IF ok
         THEN /\ pendingDataFiles' = pendingDataFiles + 1
              /\ tpc' = "unlock"
              /\ UNCHANGED tOutcome
         ELSE /\ EndCall("rejected")
              /\ UNCHANGED pendingDataFiles
  /\ UNCHANGED << tOp, dataPendingLock, lockAcquired, telemetryObjFile, tTodo,
                  errors, tCalls >>
  /\ UNCHANGED mainVars
  /\ UNCHANGED pureVars

\* FileLock.unlock 112-118, called at 158 and 181 as the last statement:
\* the lock file is removed and the method returns
FileLock_unlock ==
  /\ tpc = "unlock"
  /\ dataPendingLock' = FALSE
  /\ EndCall("returned")
  /\ UNCHANGED << tOp, lockAcquired, telemetryObjFile, pendingDataFiles, tTodo,
                  errors, tCalls >>
  /\ UNCHANGED mainVars
  /\ UNCHANGED pureVars

NextTel ==
  \/ reportTelemetryFile
  \/ ReportTry
  \/ sendPendingData
  \/ FileLock_lock
  \/ move
  \/ pendingFilesPaths
  \/ SendFile
  \/ FilesDone
  \/ createTelemetryReporterMetaError
  \/ FileLock_unlock

SpecTel == InitTel /\ [][NextTel]_vars

TelTypeOK ==
  /\ tOp \in TelOps \cup {"none"}
  /\ tpc \in {"idle", "try", "lock", "move", "readdir", "files", "meta", "unlock"}
  /\ dataPendingLock \in BOOLEAN
  /\ lockAcquired \in BOOLEAN
  /\ telemetryObjFile \in {"none", "present", "moved", "removed"}
  /\ pendingDataFiles \in 0..MaxPending
  /\ tTodo \in 0..MaxPending
  /\ errors \in 0..MaxPending
  /\ tCalls \in 0..MaxCalls
  /\ tOutcome \in {"none", "returned", "rejected"}

TypeOK ==
  /\ kind \in Kinds
  /\ nBatches \in 1..MaxBatches
  /\ disk \in [Kinds -> [FileHashes -> {Absent} \cup 0..MaxBatches]]
  /\ counter \in 0..nBatches
  /\ pc \in Running \cup Ended
  /\ retryCount \in 0..(MAX_RETRIES + 1)
  /\ err \in Errors \cup {"none"}
  /\ confirmed \subseteq 0..(nBatches - 1)
  /\ remote.applied \subseteq 0..(nBatches - 1)

\* ---------------------------------------------------------------------
\* Auxiliary definitions of the properties
\* ---------------------------------------------------------------------

NumConfirmed == Cardinality(confirmed)

AllBatches == 0..(nBatches - 1)

EntryPresent == disk[kind][fileHash] # Absent

\* the batches submitted by the current attempt are entry, entry+1, ...
Contiguous ==
  \A j \in 1..Len(attemptSubs) : attemptSubs[j] = attemptEntry + j - 1

\* ---------------------------------------------------------------------
\* C1
\* ---------------------------------------------------------------------

C3_FailureLeavesCheckpoint ==
  failedAt # None =>
    /\ EntryPresent
    /\ disk[kind][fileHash] = failedAt
    /\ attemptSubs # << >>
    /\ attemptSubs[Len(attemptSubs)] = failedAt
    /\ \A j \in 1..Len(attemptSubs) : attemptSubs[j] <= failedAt
    /\ err \in Errors
    /\ pc \in {"caught", "sleep", "begin", "exited", "aborted", "crashed"}
    /\ ~listener

\* batch 1 failed after batch 0 succeeded, and the error is in the retry layer
C3_Witness ==
  /\ pc = "caught"
  /\ failedAt = 1
  /\ attemptSubs = << 0, 1 >>

\* ---------------------------------------------------------------------
\* C4
\* ---------------------------------------------------------------------

\* C4: every attempt, be it an automatic retry or the first attempt of a new
\* invocation, that finds the persisted count i submits batch i first and
\* never a batch below i.
C4_ResumeAtCheckpoint ==
  attemptSubs # << >> =>
    /\ attemptSubs[1] = attemptEntry
    /\ \A j \in 1..Len(attemptSubs) : attemptSubs[j] >= attemptEntry

\* an automatic retry resumed at a checkpoint above 0
C4_Witness ==
  /\ retryCount >= 1
  /\ attempts >= 2
  /\ attemptEntry >= 1
  /\ attemptSubs # << >>
  /\ attemptSubs[1] = attemptEntry

\* ---------------------------------------------------------------------
\* C5
\* ---------------------------------------------------------------------

\* C5: once the run has submitted every batch successfully its checkpoint
\* entry is absent, and an entry is removed only by the step that ends a run
\* whose batches have all been confirmed.
C5_ClearOnCompletion ==
  /\ [](pc = "done" => ~EntryPresent)
  /\ [][(EntryPresent /\ ~EntryPresent') =>
          (pc' = "done" /\ counter >= nBatches /\ confirmed = AllBatches)]_vars

\* a run that found an entry (resumed) has finished and the entry is gone
C5_Witness ==
  /\ pc = "done"
  /\ attemptEntry >= 1
  /\ ~EntryPresent
  /\ confirmed = AllBatches

\* ---------------------------------------------------------------------
\* C6
\* ---------------------------------------------------------------------

C7_AtLeastOnce ==
  /\ (redo # None /\ attempts = 1 /\ attemptSubs # << >>) =>
       attemptSubs[1] = redo
  /\ pc = "done" =>
       remote = [applied |-> AllBatches, last |-> nBatches - 1]

\* the invocation after such an interrupt submitted batch 1 again and finished
C7_Witness ==
  /\ redo = 1
  /\ attempts = 1
  /\ pc = "done"
  /\ attemptSubs[1] = 1
  /\ nBatches >= 2

\* ---------------------------------------------------------------------
\* C8
\* ---------------------------------------------------------------------

\* C8: an invocation makes at most MAX_RETRIES+1 attempts; a new attempt
\* starts only after a retryable failure with the counter below MAX_RETRIES,
\* after exactly one wait and one increment per retry; with the counter at
\* the maximum the run aborts.
C8_BoundedRetry ==
  /\ attempts <= MAX_RETRIES + 1
  /\ retryCount <= MAX_RETRIES
  /\ pc = "sleep" => (err = "RemoteTransientError" /\ retryCount < MAX_RETRIES)
  /\ (pc = "begin" /\ retryCount > 0) =>
       (err = "RemoteTransientError" /\ waits = retryCount)
  /\ (pc \in {"exited", "aborted"} /\ err = "RemoteTransientError"
        /\ kind = DELETES) => retryCount = MAX_RETRIES

\* ---------------------------------------------------------------------
\* C9
\* ---------------------------------------------------------------------

\* C9: in an Import run a RemoteRejectionError on batch i ends the process
\* at once: no wait, no new attempt, whatever the retry budget left, and the
\* checkpoint entry stays persisted at i.
C9_ImportRejectionAborts ==
  (kind = IMPORTS /\ err = "RemoteRejectionError") =>
    /\ pc \in {"caught", "exited", "crashed"}
    /\ failedAt # None
    /\ EntryPresent
    /\ disk[kind][fileHash] = failedAt
    /\ waits = 0
    /\ retryCount = 0
    /\ attempts = 1

\* batch 0 of 3 was rejected: the process exited with budget left, checkpoint 0
C9_Witness ==
  /\ kind = IMPORTS
  /\ nBatches = 3
  /\ err = "RemoteRejectionError"
  /\ pc = "exited"
  /\ failedAt = 0
  /\ disk[kind][fileHash] = 0
  /\ retryCount < MAX_RETRIES

\* ---------------------------------------------------------------------
\* C10
\* ---------------------------------------------------------------------

\* C10: in a Delete run a RemoteRejectionError is never followed by a wait
\* and a new attempt.
C10_DeleteRejectionNotRetried ==
  (kind = DELETES /\ err = "RemoteRejectionError") =>
    pc \notin {"sleep", "begin"}


\* ---------------------------------------------------------------------
\* C11
\* ---------------------------------------------------------------------

\* C11: a first invocation without interrupt or crash whose submissions fail
\* only with RemoteTransientError (and before any remote effect) does not
\* end before the retry budget is used up unless the run is complete, and a
\* complete run has applied every batch exactly once and removed the entry.
C11_TransientRunCompletes ==
  (invocations = 1 /\ ~crashSeen /\ interruptedAt = None
     /\ ~sawRejection /\ ~failedApplied) =>
    /\ pc \in Ended => (pc = "done" \/ retryCount >= MAX_RETRIES)
    /\ pc = "done" =>
         /\ remote.applied = AllBatches
         /\ ~dupApply
         /\ ~EntryPresent

\* ---------------------------------------------------------------------
\* C12
\* ---------------------------------------------------------------------

\* C12: in reset mode, once the import has succeeded, exactly one Delete run
\* over previousKeys - newKeys has been started when that set is not empty,
\* and none when it is empty.
C12_StaleKeysDeleted ==
  (kind = IMPORTS /\ reset /\ resetBlockReached) =>
    cleanupRuns = IF difference(previousKeys, routeKeys) = {}
                    THEN << >>
                    ELSE << difference(previousKeys, routeKeys) >>

\* ---------------------------------------------------------------------
\* C13
\* ---------------------------------------------------------------------

\* C13: the reset block, the only place that starts a cleanup run, is
\* reached only after the import has confirmed every batch and cleared its
\* checkpoint entry; when the import aborts, is interrupted or crashes, the
\* block is not reached and no cleanup run is started.
C13_CleanupOnlyAfterImport ==
  /\ resetBlockReached =>
       /\ kind = IMPORTS
       /\ pc \in {"done", "cleanup"}
       /\ ~EntryPresent
       /\ confirmed = AllBatches
  /\ cleanupRuns # << >> => resetBlockReached
  /\ pc \in {"exited", "aborted", "interrupted", "crashed"} =>
       (cleanupRuns = << >> /\ ~resetBlockReached)

\* an import in reset mode with stale keys aborted: no cleanup was started
C13_Witness ==
  /\ kind = IMPORTS
  /\ reset
  /\ difference(previousKeys, routeKeys) # {}
  /\ pc = "exited"
  /\ failedAt >= 1
  /\ cleanupRuns = << >>

\* ---------------------------------------------------------------------
\* C14
\* ---------------------------------------------------------------------

\* C14: at most one submission is in flight, and within an attempt a batch
\* is submitted only after the one before it returned successfully, in
\* increasing index order.
C14_Sequential ==
  /\ Len(attemptSubs) - attemptOK \in {0, 1}
  /\ pc = "inflight" =>
       /\ Len(attemptSubs) = attemptOK + 1
       /\ attemptSubs[Len(attemptSubs)] = counter
  /\ \A j \in 1..(Len(attemptSubs) - 1) :
       /\ attemptSubs[j + 1] = attemptSubs[j] + 1
       /\ attemptSubs[j] \in confirmed

\* the third batch is in flight after the first two returned
C14_Witness ==
  /\ pc = "inflight"
  /\ attemptSubs = << 0, 1, 2 >>
  /\ attemptOK = 2

\* ---------------------------------------------------------------------
\* C15
\* ---------------------------------------------------------------------

\* C15: two triples (account, workspace, content) that differ never give the
\* same digest input.
C15_InjectiveDigestInput ==
  fpOut # << "none" >> =>
    \A t \in FpTriples :
      FingerprintInput(t[1], t[2], t[3]) = fpOut => t = fpIn

\* ---------------------------------------------------------------------
\* C16
\* ---------------------------------------------------------------------

RECURSIVE Flatten(_)
Flatten(ss) == IF ss = << >> THEN << >> ELSE Head(ss) \o Flatten(Tail(ss))

\* C16: planning N records with maximum size B >= 1 gives ceil(N/B) batches,
\* each non-empty and of at most B records, all but the last of exactly B,
\* whose concatenation is the original list.
C16_ChunkPlan ==
  chunkOut # NoPlan =>
    /\ Len(chunkOut) = (Len(chunkRecords) + chunkB - 1) \div chunkB
    /\ \A i \in 1..Len(chunkOut) :
         /\ Len(chunkOut[i]) \in 1..chunkB
         /\ i < Len(chunkOut) => Len(chunkOut[i]) = chunkB
    /\ Flatten(chunkOut) = chunkRecords

\* five records in batches of two: three batches, the last of one record
C16_Witness ==
  /\ chunkOut # NoPlan
  /\ Len(chunkRecords) = 5
  /\ chunkB = 2
  /\ Len(chunkOut) = 3
  /\ Len(chunkOut[3]) = 1

\* ---------------------------------------------------------------------
\* C18
\* ---------------------------------------------------------------------

\* C18: as long as the entry of the run is not cleared, the counts persisted
\* for it never decrease, and every persisted count is between 0 and the
\* number of planned batches.
C18_MonotonicCheckpoint ==
  /\ [](EntryPresent => disk[kind][fileHash] \in 0..nBatches)
  /\ [][(EntryPresent /\ EntryPresent') =>
          disk'[kind][fileHash] >= disk[kind][fileHash]]_vars

\* a retry attempt persisted a count above the one it had found
C18_Witness ==
  /\ pc = "caught"
  /\ attempts >= 2
  /\ attemptEntry >= 1
  /\ EntryPresent
  /\ disk[kind][fileHash] > attemptEntry

\* ---------------------------------------------------------------------
\* C19
\* ---------------------------------------------------------------------

\* C19: a SIGINT listener is open exactly while the loop of an attempt runs
\* (from before its first submission until completion or a propagated
\* failure), never during the retry wait or after the run has ended, and
\* never more than one at a time.
C19_ListenerArmedInLoop ==
  /\ openListeners \in {0, 1}
  /\ listener <=> openListeners = 1
  /\ listener <=> pc \in {"loop", "inflight"}

\* the listener of a second attempt is open; the first one was closed
C19_Witness ==
  /\ attempts = 2
  /\ pc = "inflight"
  /\ listener
  /\ openListeners = 1

\* ---------------------------------------------------------------------
\* C20
\* ---------------------------------------------------------------------

\* C20: no step changes an entry of the metainfo document other than the
\* entry of the run's own kind and file hash.
C20_OtherEntriesUntouched ==
  [][\A k \in Kinds, h \in FileHashes :
       (k # kind \/ h # fileHash) => disk'[k][h] = disk[k][h]]_vars

\* the run saved its own entry next to the entry of another import
C20_Witness ==
  /\ kind = IMPORTS
  /\ pc = "caught"
  /\ disk[IMPORTS]["h1"] = 1
  /\ disk[IMPORTS]["h2"] = 1

\* ---------------------------------------------------------------------
\* C21
\* ---------------------------------------------------------------------

\* C21: every call of reportTelemetryFile or sendPendingData that acquires
\* dataPendingLock releases it before the call ends, whether the call
\* returns normally or a step performed under the lock fails: once a call
\* that acquired the lock is over, the lock is not held.
C21_LockReleasedAtEnd ==
  (tOp \in TelOps /\ tpc = "idle" /\ lockAcquired) => ~dataPendingLock

====
